---- MODULE Spec2Model ----
(***************************************************************************)
(* Recording-session lifecycle of the WIN video test platform.            *)
(*                                                                         *)
(* The model covers the page script (src/src/db.ts lines 87-321), the     *)
(* recorder helpers it imports (src/src/recorder.ts lines 41-157) and the  *)
(* platform objects they drive: camera streams obtained from getUserMedia, *)
(* MediaRecorder instances, the auto-stop timers and the event loop.       *)
(*                                                                         *)
(* One step of the model is one task of the event loop: a click handler,   *)
(* the continuation of an await, a timer callback or the delivery of one   *)
(* recorder event together with the promise reactions it triggers.         *)
(*                                                                         *)
(* Platform behaviour assumed by the model:                                *)
(*  - a click reaches a handler only if the button is enabled and the      *)
(*    section holding it is displayed (the recorder controls and the Back  *)
(*    button live in #record-ui, the Save controls in #save-section inside *)
(*    it, the test buttons in #test-select);                               *)
(*  - recorder.stop() makes recorder.state "inactive" at once and queues   *)
(*    the "stop" event; a recorder error makes it "inactive" and queues    *)
(*    "error" followed by "stop"; a recorder leaves state "recording" in   *)
(*    no other way;                                                        *)
(*  - the browser (the supported media types, and whether a recorder       *)
(*    exposes the type it uses as recorder.mimeType) does not change       *)
(*    during a run.                                                        *)
(*                                                                         *)
(* The attempt store (src/src/db.ts lines 24-51) and the codec selection   *)
(* of recordVideo are also modelled on their own, under StoreSpec and      *)
(* CodecSpec, for arbitrary callers and browsers. Under Spec the page runs *)
(* in one browser and saveAttempt is one pending promise that resolves     *)
(* with the record stored or rejects with nothing stored.                  *)
(***************************************************************************)
EXTENDS Integers, Sequences, FiniteSets, TLC

\* ---------------------------------------------------------------- bounds
MaxAcq == 2      \* camera acquisitions (Start Camera clicks) per run
MaxRecs == 2     \* recordings (MediaRecorder instances) per run
MaxSaves == 1    \* recordings whose result reaches saveAttempt per run
MaxSaveClicks == 2   \* Save clicks that reach saveAttempt per recording
MaxCalls == 3    \* calls of the store functions per run (StoreSpec)

\* -------------------------------------------------------------- constants
maxDurationMs == 90000               \* recordVideo(currentStream, 90_000)
TickMs == maxDurationMs              \* step of performance.now()

Streams == 1..MaxAcq
Recs == 1..MaxRecs
NoStream == 0                        \* currentStream = null
NoRec == 0                           \* currentRecording = null
NoTest == "null"                     \* currentTestType = null
\* One of the five TestType values; no handler branches on the test type.
TestTypes == {"plank"}
NoResult == [blob |-> 0, mimeType |-> "", durationMs |-> 0]
                                     \* recordedVideo = null
Scores == {<<>>, <<" ">>, <<"6", "2", "s">>}       \* texts typed as score

VARIABLES
  \* page script globals, db.ts 95-102
  currentStream, currentRecording, isCancelling, currentTestType,
  recordedVideo, lastPreviewUrl,
  \* DOM state the script writes
  startCameraDisabled, startRecordDisabled, stopRecordDisabled,
  saveSectionShown, recordUIShown, scoreInput,
  \* camera acquisitions: progress of each startCamera call, and the number
  \* of stopCamera calls each stream has received
  acq, stopCount,
  \* recorders: MediaRecorder.state, recorded stream, queued events, the
  \* "done" promise, the auto-stop timer and the elapsed recording time
  recState, recStream, evq, done, timer, elapsed,
  \* bookkeeping: recorder.stop() calls, cancel requests, runs of the two
  \* branches of the completion handler
  stopCalls, cancelReq, thenRuns, catchRuns,
  \* saves: pending saveAttempt calls, every Attempt passed to saveAttempt,
  \* and the attempts object store
  pendingSaves, putLog, store,
  \* the browser: media types MediaRecorder.isTypeSupported accepts, and
  \* whether a recorder exposes the type it uses as recorder.mimeType
  supported, exposesMime,
  \* one recordVideo call followed for its media type (CodecSpec)
  codec,
  \* db.ts 24-51: the cached handle, the openDB calls made so far, whether
  \* the "attempts" object store exists, the calls of the store functions,
  \* and the record last stored under each id
  dbInstance, openCalls, provisioned, calls, lastPut

globals == <<currentStream, currentRecording, isCancelling, currentTestType,
             recordedVideo, lastPreviewUrl>>
dom == <<startCameraDisabled, startRecordDisabled, stopRecordDisabled,
         saveSectionShown, recordUIShown, scoreInput>>
cams == <<acq, stopCount>>
recorders == <<recState, recStream, evq, done, timer, elapsed, stopCalls>>
history == <<cancelReq, thenRuns, catchRuns>>
saves == <<pendingSaves, putLog, store>>
browser == <<supported, exposesMime>>
db == <<dbInstance, openCalls, provisioned, calls, lastPut>>
env == <<browser, codec, db>>
vars == <<globals, dom, cams, recorders, history, saves, env>>

\* ------------------------------------------------------ recorder.ts helpers

\* stopCamera(stream): stops every track of the stream.
stopCamera(counts, s) == [counts EXCEPT ![s] = @ + 1]

\* recorder.stop() on recorder r: state becomes inactive, "stop" is queued.
RecorderStop(r) ==
  /\ recState' = [recState EXCEPT ![r] = "inactive"]
  /\ evq' = [evq EXCEPT ![r] = Append(@, "stop")]
  /\ stopCalls' = [stopCalls EXCEPT ![r] = @ + 1]

\* Variant of StopGuard: the recorder's state is not consulted.
StopGuardUnchecked(r) == recState[r] # "none"

\* The guard of controller.stop and of the timer callback.
StopGuard(r) == recState[r] = "recording"

\* controller.stop(): if (recorder.state === "recording") recorder.stop()
ControllerStop(r) ==
  IF StopGuard(r)
    THEN RecorderStop(r)
    ELSE UNCHANGED <<recState, evq, stopCalls>>

\* ------------------------------------------------------ codec selection

\* The candidates of pickBestMimeType, in its order.
Candidates ==
  <<"video/webm;codecs=vp9", "video/webm;codecs=vp8", "video/webm",
    "video/mp4">>

\* A media type a browser may record that is not among the candidates.
OtherType == "video/x-matroska"

\* The media types a browser may support.
PlatformTypes == {Candidates[i] : i \in 1..Len(Candidates)} \cup {OtherType}

\* pickBestMimeType() returns undefined.
Undefined == "undefined"

\* The loop of pickBestMimeType from candidate i on.
RECURSIVE PickFrom(_, _)
PickFrom(sup, i) ==
  IF i > Len(Candidates) THEN Undefined
  ELSE IF Candidates[i] \in sup THEN Candidates[i]
  ELSE PickFrom(sup, i + 1)

\* pickBestMimeType() in a browser that supports the types sup.
pickBestMimeType(sup) == PickFrom(sup, 1)

\* recorder.mimeType of a recorder that uses the type used.
RecorderMimeType(used) == IF exposesMime THEN used ELSE ""

\* The last fallback of the "stop" listener.
FallbackType == "video/webm"

\* recorder.mimeType || chosen || "video/webm"
ActualMimeType(recMime, ch) ==
  IF recMime # "" THEN recMime
  ELSE IF ch # Undefined THEN ch
  ELSE FallbackType

\* The browser of the page under Spec: it supports a candidate, which the
\* recorder then uses, and exposes recorder.mimeType.
PageSupported == {"video/webm;codecs=vp8", "video/webm"}

\* The media type the "stop" listener reports under Spec.
PageMimeType ==
  ActualMimeType(RecorderMimeType(pickBestMimeType(supported)),
                 pickBestMimeType(supported))

\* No record: what db.get returns for an id that is not stored.
NoAttempt == [id |-> 0]

\* The ids the callers of the store functions use.
DbIds == {1, 2, 3}

\* The state of the store functions before any call.
DbIdle ==
  /\ dbInstance = 0
  /\ openCalls = 0
  /\ provisioned = FALSE
  /\ calls = [c \in 1..MaxCalls |-> [op |-> "none", pc |-> "idle"]]
  /\ lastPut = [i \in DbIds |-> NoAttempt]

\* The recordVideo call followed under CodecSpec has not started.
CodecIdle == codec = [pc |-> "idle"]

\* ---------------------------------------------------------------- Init
\* The page script's state after the module is loaded.
PageInit ==
  /\ currentStream = NoStream
  /\ currentRecording = NoRec
  /\ isCancelling = FALSE
  /\ currentTestType = NoTest
  /\ recordedVideo = NoResult
  /\ lastPreviewUrl = 0
  /\ startCameraDisabled = FALSE
  /\ startRecordDisabled = TRUE
  /\ stopRecordDisabled = TRUE
  /\ saveSectionShown = FALSE
  /\ recordUIShown = FALSE
  /\ scoreInput = <<>>
  /\ acq = [s \in Streams |-> "idle"]
  /\ stopCount = [s \in Streams |-> 0]
  /\ recState = [r \in Recs |-> "none"]
  /\ recStream = [r \in Recs |-> NoStream]
  /\ evq = [r \in Recs |-> <<>>]
  /\ done = [r \in Recs |-> "none"]
  /\ timer = [r \in Recs |-> "none"]
  /\ elapsed = [r \in Recs |-> 0]
  /\ stopCalls = [r \in Recs |-> 0]
  /\ cancelReq = [r \in Recs |-> FALSE]
  /\ thenRuns = [r \in Recs |-> 0]
  /\ catchRuns = [r \in Recs |-> 0]
  /\ pendingSaves = {}
  /\ putLog = {}
  /\ store = {}

Init ==
  /\ PageInit
  /\ supported = PageSupported
  /\ exposesMime = TRUE
  /\ CodecIdle
  /\ DbIdle

\* ------------------------------------------------------------ page script

\* openTestRecorder(testType), reached from a click on a [data-test] button.
openTestRecorder(t) ==
  /\ ~recordUIShown
  /\ currentTestType' = t
  /\ recordUIShown' = TRUE
  /\ saveSectionShown' = FALSE
  /\ recordedVideo' = NoResult
  /\ startCameraDisabled' = FALSE
  /\ startRecordDisabled' = TRUE
  /\ stopRecordDisabled' = TRUE
  /\ UNCHANGED <<currentStream, currentRecording, isCancelling, lastPreviewUrl,
                 scoreInput, cams, recorders, history, saves>>
  /\ UNCHANGED env

\* The stream a Start Camera click releases before it acquires a new one.
PriorStream == currentStream

\* startCameraBtn click, up to the await of getUserMedia.
StartCameraClick ==
  /\ recordUIShown /\ ~startCameraDisabled
  /\ \E s \in Streams :
       /\ acq[s] = "idle"
       /\ \A p \in Streams : p < s => acq[p] # "idle"
       /\ acq' = [acq EXCEPT ![s] = "gum"]
  /\ stopCount' = IF PriorStream # NoStream
                    THEN stopCamera(stopCount, PriorStream)
                    ELSE stopCount
  /\ UNCHANGED <<globals, dom, recorders, history, saves>>
  /\ UNCHANGED env

\* getUserMedia resolves: the device is acquired; startCamera sets
\* videoElement.srcObject and awaits videoElement.play().
GumResolve(s) ==
  /\ acq[s] = "gum"
  /\ acq' = [acq EXCEPT ![s] = "play"]
  /\ UNCHANGED <<globals, dom, stopCount, recorders, history, saves>>
  /\ UNCHANGED env

\* getUserMedia rejects: the click handler's catch alerts.
GumReject(s) ==
  /\ acq[s] = "gum"
  /\ acq' = [acq EXCEPT ![s] = "denied"]
  /\ UNCHANGED <<globals, dom, stopCount, recorders, history, saves>>
  /\ UNCHANGED env

\* play() resolves: startCamera returns the stream, the handler stores it.
PlayResolve(s) ==
  /\ acq[s] = "play"
  /\ acq' = [acq EXCEPT ![s] = "done"]
  /\ currentStream' = s
  /\ startCameraDisabled' = TRUE
  /\ startRecordDisabled' = FALSE
  /\ UNCHANGED <<currentRecording, isCancelling, currentTestType, recordedVideo,
                 lastPreviewUrl, stopRecordDisabled, saveSectionShown,
                 recordUIShown, scoreInput, stopCount, recorders, history, saves>>
  /\ UNCHANGED env

\* play() rejects: startCamera throws after the device was obtained; the
\* handler's catch alerts and the stream is dropped.
PlayReject(s) ==
  /\ acq[s] = "play"
  /\ acq' = [acq EXCEPT ![s] = "playfail"]
  /\ UNCHANGED <<globals, dom, stopCount, recorders, history, saves>>
  /\ UNCHANGED env

\* Variant of Pending: a settled promise settles again.
PendingNoLatch(r) == done[r] # "none"

\* The one-shot latch of the "done" promise: resolve and reject take effect
\* only while the promise is pending.
Pending(r) == done[r] = "pending"

\* Variant of recordVideo: "done" is resolved when the recorder is created
\* instead of in its "stop" listener.
recordVideoResolvedEarly(r, s) ==
  /\ recState' = [recState EXCEPT ![r] = "recording"]
  /\ recStream' = [recStream EXCEPT ![r] = s]
  /\ done' = [done EXCEPT ![r] = "resolved"]
  /\ timer' = [timer EXCEPT ![r] = "armed"]
  /\ elapsed' = [elapsed EXCEPT ![r] = 0]
  /\ UNCHANGED <<evq, stopCalls>>

\* recordVideo(stream, maxDurationMs): a new recorder on stream s, started,
\* with its "done" promise and its auto-stop timer.
recordVideo(r, s) ==
  /\ recState' = [recState EXCEPT ![r] = "recording"]
  /\ recStream' = [recStream EXCEPT ![r] = s]
  /\ done' = [done EXCEPT ![r] = "pending"]
  /\ timer' = [timer EXCEPT ![r] = "armed"]
  /\ elapsed' = [elapsed EXCEPT ![r] = 0]
  /\ UNCHANGED <<evq, stopCalls>>

\* startRecordBtn click.
StartRecordClick ==
  /\ recordUIShown /\ ~startRecordDisabled
  /\ IF currentStream = NoStream
       THEN UNCHANGED <<globals, dom, cams, recorders, history, saves>>
       ELSE \E r \in Recs :
              /\ recState[r] = "none"
              /\ \A p \in Recs : p < r => recState[p] # "none"
              /\ isCancelling' = FALSE
              /\ recordVideo(r, currentStream)
              /\ currentRecording' = r
              /\ startRecordDisabled' = TRUE
              /\ stopRecordDisabled' = FALSE
              /\ UNCHANGED <<currentStream, currentTestType, recordedVideo,
                             lastPreviewUrl, startCameraDisabled,
                             saveSectionShown, recordUIShown, scoreInput,
                             cams, history, saves>>
  /\ UNCHANGED env

\* stopRecordBtn click.
StopClick ==
  /\ recordUIShown /\ ~stopRecordDisabled
  /\ IF currentRecording = NoRec
       THEN UNCHANGED <<recState, evq, stopCalls>>
       ELSE ControllerStop(currentRecording)
  /\ UNCHANGED <<globals, dom, cams, recStream, done, timer, elapsed,
                 history, saves>>
  /\ UNCHANGED env

\* Time passes for a recorder whose auto-stop timer is still armed.
Tick(r) ==
  /\ timer[r] = "armed"
  /\ elapsed[r] < maxDurationMs
  /\ elapsed' = [elapsed EXCEPT ![r] = @ + TickMs]
  /\ UNCHANGED <<globals, dom, cams, recState, recStream, evq, done, timer,
                 stopCalls, history, saves>>
  /\ UNCHANGED env

\* Variant of TimerDelay: the callback is scheduled without a delay.
TimerDelayOmitted == maxDurationMs * 0

\* The delay after which window.setTimeout runs the auto-stop callback.
TimerDelay == maxDurationMs

\* The auto-stop callback of recorder r.
TimerFire(r) ==
  /\ timer[r] = "armed"
  /\ elapsed[r] >= TimerDelay
  /\ timer' = [timer EXCEPT ![r] = "fired"]
  /\ ControllerStop(r)
  /\ UNCHANGED <<globals, dom, cams, recStream, done, elapsed, history, saves>>
  /\ UNCHANGED env

\* The recorder fails while recording: it becomes inactive and queues
\* "error" followed by "stop".
RecorderError(r) ==
  /\ recState[r] = "recording"
  /\ recState' = [recState EXCEPT ![r] = "inactive"]
  /\ evq' = [evq EXCEPT ![r] = @ \o <<"error", "stop">>]
  /\ UNCHANGED <<globals, dom, cams, recStream, done, timer, elapsed,
                 stopCalls, history, saves>>
  /\ UNCHANGED env

\* The RecordingResult built by the "stop" listener of recorder r.
Result(r) ==
  [blob |-> r,
   mimeType |-> PageMimeType,
   durationMs |-> IF elapsed[r] > 0 THEN elapsed[r] ELSE 0]

\* The flag the success branch reads to decide whether to drop the result.
Discard == isCancelling

\* currentRecording.done.then(...): the success branch for recorder r.
DoneThen(r) ==
  /\ thenRuns' = [thenRuns EXCEPT ![r] = @ + 1]
  /\ IF Discard
       THEN UNCHANGED <<globals, dom, stopCount>>
       ELSE /\ recordedVideo' = Result(r)
            /\ stopCount' = IF currentStream # NoStream
                              THEN stopCamera(stopCount, currentStream)
                              ELSE stopCount
            /\ currentStream' = NoStream
            /\ lastPreviewUrl' = Result(r).blob
            /\ saveSectionShown' = TRUE
            /\ stopRecordDisabled' = TRUE
            /\ UNCHANGED <<currentRecording, isCancelling, currentTestType,
                           startCameraDisabled, startRecordDisabled,
                           recordUIShown, scoreInput>>
  /\ UNCHANGED <<catchRuns>>

\* currentRecording.done ... .catch(...): the failure branch for recorder r.
DoneCatch(r) ==
  /\ catchRuns' = [catchRuns EXCEPT ![r] = @ + 1]
  /\ stopRecordDisabled' = TRUE
  /\ startRecordDisabled' = FALSE
  /\ startCameraDisabled' = FALSE
  /\ UNCHANGED <<globals, saveSectionShown, recordUIShown, scoreInput,
                 stopCount, thenRuns>>

\* The recorder's "stop" event reaches its listener, which resolves "done".
StopEvent(r) ==
  /\ evq[r] # <<>> /\ Head(evq[r]) = "stop"
  /\ evq' = [evq EXCEPT ![r] = Tail(@)]
  /\ IF Pending(r)
       THEN /\ done' = [done EXCEPT ![r] = "resolved"]
            /\ DoneThen(r)
       ELSE UNCHANGED <<done, globals, dom, stopCount, thenRuns, catchRuns>>
  /\ UNCHANGED <<acq, recState, recStream, timer, elapsed, stopCalls,
                 cancelReq, saves>>
  /\ UNCHANGED env

\* The recorder's "error" event reaches its listener, which rejects "done".
ErrorEvent(r) ==
  /\ evq[r] # <<>> /\ Head(evq[r]) = "error"
  /\ evq' = [evq EXCEPT ![r] = Tail(@)]
  /\ IF Pending(r)
       THEN /\ done' = [done EXCEPT ![r] = "rejected"]
            /\ DoneCatch(r)
       ELSE UNCHANGED <<done, globals, dom, stopCount, thenRuns, catchRuns>>
  /\ UNCHANGED <<acq, recState, recStream, timer, elapsed, stopCalls,
                 cancelReq, saves>>
  /\ UNCHANGED env

\* resetRecorder()
resetRecorder ==
  /\ lastPreviewUrl' = 0
  /\ stopCount' = IF currentStream # NoStream
                    THEN stopCamera(stopCount, currentStream)
                    ELSE stopCount
  /\ currentStream' = NoStream
  /\ recordUIShown' = FALSE
  /\ startCameraDisabled' = FALSE
  /\ startRecordDisabled' = TRUE
  /\ stopRecordDisabled' = TRUE
  /\ saveSectionShown' = FALSE
  /\ scoreInput' = <<>>
  /\ currentTestType' = NoTest
  /\ recordedVideo' = NoResult
  /\ currentRecording' = NoRec
  /\ isCancelling' = FALSE

\* backBtn click.
BackClick ==
  /\ recordUIShown
  /\ IF currentRecording # NoRec /\ recState[currentRecording] = "recording"
       THEN /\ cancelReq' = [cancelReq EXCEPT ![currentRecording] = TRUE]
            /\ ControllerStop(currentRecording)
       ELSE UNCHANGED <<cancelReq, recState, evq, stopCalls>>
  /\ resetRecorder
  /\ UNCHANGED <<acq, recStream, done, timer, elapsed, thenRuns, catchRuns,
                 saves>>
  /\ UNCHANGED env

\* The user types a score into #score-input.
TypeScore(v) ==
  /\ recordUIShown /\ saveSectionShown
  /\ scoreInput # v
  /\ scoreInput' = v
  /\ UNCHANGED <<globals, startCameraDisabled, startRecordDisabled,
                 stopRecordDisabled, saveSectionShown, recordUIShown,
                 cams, recorders, history, saves>>
  /\ UNCHANGED env

\* Variant of Trim: the score is taken as typed.
TrimOmitted(s) == s

\* String.prototype.trim on a text given as a sequence of characters.
RECURSIVE TrimLeft(_)
TrimLeft(s) == IF s # <<>> /\ Head(s) = " " THEN TrimLeft(Tail(s)) ELSE s
RECURSIVE TrimRight(_)
TrimRight(s) ==
  IF s # <<>> /\ s[Len(s)] = " " THEN TrimRight(SubSeq(s, 1, Len(s) - 1)) ELSE s
Trim(s) == TrimRight(TrimLeft(s))

\* The Attempt built by the Save handler.
NewAttempt ==
  [id |-> Cardinality(putLog) + 1,
   testType |-> currentTestType,
   verified |-> FALSE,
   scoreText |-> Trim(scoreInput),
   video |-> recordedVideo.blob,
   mimeType |-> recordedVideo.mimeType,
   durationMs |-> recordedVideo.durationMs]

\* saveAttemptBtn click, up to the await of saveAttempt(attempt).
SaveClick ==
  /\ recordUIShown /\ saveSectionShown
  /\ IF recordedVideo = NoResult \/ currentTestType = NoTest
          \/ Trim(scoreInput) = <<>>
       THEN UNCHANGED saves
       ELSE /\ Cardinality({a \in putLog : a.video = recordedVideo.blob})
                 < MaxSaveClicks
            /\ Cardinality({a.video : a \in putLog} \cup {recordedVideo.blob})
                 <= MaxSaves
            /\ putLog' = putLog \cup {NewAttempt}
            /\ pendingSaves' = pendingSaves \cup {NewAttempt}
            /\ UNCHANGED store
  /\ UNCHANGED <<globals, dom, cams, recorders, history>>
  /\ UNCHANGED env

\* Variant of Put: a record whose id is already stored is kept (db.add).
PutIfAbsent(st, a) == IF \E x \in st : x.id = a.id THEN st ELSE st \cup {a}

\* Variant of Put: the store is not keyed, the record is added to the others.
PutAppend(st, a) == st \cup {a}

\* db.put("attempts", a) on the object store st, whose key path is "id".
Put(st, a) == {x \in st : x.id # a.id} \cup {a}

\* saveAttempt(a) resolves: db.put stored the record; the handler alerts,
\* resets the recorder and reloads the list.
SaveResolve(a) ==
  /\ a \in pendingSaves
  /\ pendingSaves' = pendingSaves \ {a}
  /\ store' = Put(store, a)
  /\ resetRecorder
  /\ UNCHANGED <<acq, putLog, recorders, history>>
  /\ UNCHANGED env

\* Variant of SaveReject: the handler goes on as after a successful write.
SaveRejectIgnored(a) ==
  /\ a \in pendingSaves
  /\ pendingSaves' = pendingSaves \ {a}
  /\ resetRecorder
  /\ UNCHANGED <<acq, putLog, store, recorders, history>>
  /\ UNCHANGED env

\* saveAttempt(a) rejects: the handler ends with the exception.
SaveReject(a) ==
  /\ a \in pendingSaves
  /\ pendingSaves' = pendingSaves \ {a}
  /\ UNCHANGED <<globals, dom, cams, recorders, history, putLog, store>>
  /\ UNCHANGED env

\* ------------------------------------------------------------ specification
Next ==
  \/ \E t \in TestTypes : openTestRecorder(t)
  \/ StartCameraClick
  \/ \E s \in Streams : GumResolve(s)
  \/ \E s \in Streams : GumReject(s)
  \/ \E s \in Streams : PlayResolve(s)
  \/ \E s \in Streams : PlayReject(s)
  \/ StartRecordClick
  \/ StopClick
  \/ \E r \in Recs : Tick(r)
  \/ \E r \in Recs : TimerFire(r)
  \/ \E r \in Recs : RecorderError(r)
  \/ \E r \in Recs : StopEvent(r)
  \/ \E r \in Recs : ErrorEvent(r)
  \/ BackClick
  \/ \E v \in Scores : TypeScore(v)
  \/ SaveClick
  \/ \E a \in pendingSaves : SaveResolve(a)
  \/ \E a \in pendingSaves : SaveReject(a)

Spec == Init /\ [][Next]_vars

TypeOK ==
  /\ currentStream \in Streams \cup {NoStream}
  /\ currentRecording \in Recs \cup {NoRec}
  /\ isCancelling \in BOOLEAN
  /\ currentTestType \in TestTypes \cup {NoTest}
  /\ recordedVideo.blob \in Recs \cup {0}
  /\ \A r \in Recs : recState[r] \in {"none", "recording", "inactive"}
  /\ \A r \in Recs : done[r] \in {"none", "pending", "resolved", "rejected"}
  /\ \A r \in Recs : elapsed[r] \in 0..maxDurationMs

\* The event loop runs every due timer callback and delivers every queued
\* recorder event; time passes. Clicks and recorder errors may never come.
Fairness ==
  \A r \in Recs :
    /\ WF_vars(Tick(r))
    /\ WF_vars(TimerFire(r))
    /\ WF_vars(StopEvent(r))
    /\ WF_vars(ErrorEvent(r))

FairSpec == Init /\ [][Next]_vars /\ Fairness

\* ------------------------------------------------------------ attempt store

\* The page state stays as it is while the store functions are followed.
PageUnchanged ==
  UNCHANGED <<globals, dom, cams, recorders, history, pendingSaves, putLog,
              browser, codec>>

\* The Attempts the callers save: two contents under each of two ids.
DbAttempts ==
  {[id |-> i, testType |-> "plank", verified |-> FALSE,
    scoreText |-> <<"6", "2", "s">>, video |-> 1,
    mimeType |-> "video/webm", durationMs |-> maxDurationMs] : i \in {1, 2}}
  \cup
  {[id |-> i, testType |-> "plank", verified |-> FALSE,
    scoreText |-> <<"2", "4">>, video |-> 2,
    mimeType |-> "video/mp4", durationMs |-> 0] : i \in {1, 2}}

\* The calls a caller can make: saveAttempt(a), listAttempts(), getAttempt(id).
DbRequests ==
  {[op |-> "save", arg |-> a] : a \in DbAttempts}
  \cup {[op |-> "list", arg |-> NoAttempt]}
  \cup {[op |-> "get", arg |-> [id |-> i]] : i \in DbIds}

\* db.get("attempts", id) on the object store st.
GetAttempt(st, id) ==
  IF \E x \in st : x.id = id THEN CHOOSE x \in st : x.id = id ELSE NoAttempt

\* db.getAll("attempts") on the object store st: the records in key order.
RECURSIVE ListAttempts(_)
ListAttempts(st) ==
  IF st = {} THEN <<>>
  ELSE LET first == CHOOSE x \in st : \A y \in st : x.id <= y.id
       IN <<first>> \o ListAttempts(st \ {first})

\* getDb: if (dbInstance) return dbInstance
HandleCached == dbInstance # 0

\* A store function is called: it awaits getDb(), which returns the cached
\* handle or calls openDB and awaits it.
DbCall(c, req) ==
  /\ calls[c].pc = "idle"
  /\ \A p \in 1..MaxCalls : p < c => calls[p].pc # "idle"
  /\ IF HandleCached
       THEN /\ calls' = [calls EXCEPT ![c] =
                 [op |-> req.op, arg |-> req.arg, pc |-> "ready",
                  db |-> dbInstance, ret |-> <<>>]]
            /\ UNCHANGED openCalls
       ELSE /\ openCalls' = openCalls + 1
            /\ calls' = [calls EXCEPT ![c] =
                 [op |-> req.op, arg |-> req.arg, pc |-> "open",
                  db |-> openCalls + 1, ret |-> <<>>]]
  /\ UNCHANGED <<dbInstance, provisioned, lastPut, store>>
  /\ PageUnchanged

\* openDB resolves for call c: upgrade has created the "attempts" object
\* store if it was absent; getDb caches the handle and returns it.
DbOpenResolve(c) ==
  /\ calls[c].pc = "open"
  /\ provisioned' = TRUE
  /\ dbInstance' = calls[c].db
  /\ calls' = [calls EXCEPT ![c].pc = "ready"]
  /\ UNCHANGED <<openCalls, lastPut, store>>
  /\ PageUnchanged

\* openDB rejects for call c: getDb and the store function throw.
DbOpenReject(c) ==
  /\ calls[c].pc = "open"
  /\ calls' = [calls EXCEPT ![c].pc = "failed"]
  /\ UNCHANGED <<dbInstance, openCalls, provisioned, lastPut, store>>
  /\ PageUnchanged

\* The store function of call c runs its db.put / db.getAll / db.get.
DbExec(c) ==
  /\ calls[c].pc = "ready"
  /\ provisioned
  /\ IF calls[c].op = "save"
       THEN /\ store' = Put(store, calls[c].arg)
            /\ lastPut' = [lastPut EXCEPT ![calls[c].arg.id] = calls[c].arg]
            /\ calls' = [calls EXCEPT ![c].pc = "done"]
       ELSE /\ calls' = [calls EXCEPT
                 ![c].pc = "done",
                 ![c].ret = IF calls[c].op = "list"
                              THEN ListAttempts(store)
                              ELSE <<GetAttempt(store, calls[c].arg.id)>>]
            /\ UNCHANGED <<store, lastPut>>
  /\ UNCHANGED <<dbInstance, openCalls, provisioned>>
  /\ PageUnchanged

\* db.put of call c fails: the transaction aborts and nothing is stored.
DbPutFail(c) ==
  /\ calls[c].pc = "ready"
  /\ calls[c].op = "save"
  /\ calls' = [calls EXCEPT ![c].pc = "failed"]
  /\ UNCHANGED <<dbInstance, openCalls, provisioned, lastPut, store>>
  /\ PageUnchanged

StoreNext ==
  \/ \E c \in 1..MaxCalls : \E req \in DbRequests : DbCall(c, req)
  \/ \E c \in 1..MaxCalls : DbOpenResolve(c)
  \/ \E c \in 1..MaxCalls : DbOpenReject(c)
  \/ \E c \in 1..MaxCalls : DbExec(c)
  \/ \E c \in 1..MaxCalls : DbPutFail(c)

StoreSpec == Init /\ [][StoreNext]_vars

\* ---------------------------------------------------------- codec selection

\* recordVideo on any browser: the browser supports some set of media types
\* and either exposes recorder.mimeType or leaves it empty.
CodecInit ==
  /\ PageInit
  /\ supported \in SUBSET PlatformTypes /\ supported # {}
  /\ exposesMime \in BOOLEAN
  /\ CodecIdle
  /\ DbIdle

CodecUnchanged ==
  UNCHANGED <<globals, dom, cams, recorders, history, saves, browser, db>>

\* const chosen = pickBestMimeType()
CodecPick ==
  /\ codec.pc = "idle"
  /\ codec' = [pc |-> "picked", chosen |-> pickBestMimeType(supported)]
  /\ CodecUnchanged

\* new MediaRecorder(stream, chosen ? { mimeType: chosen } : undefined) and
\* recorder.start(): the recorder uses the requested type, or a type of the
\* platform's choice when none is requested.
CodecStart ==
  /\ codec.pc = "picked"
  /\ \E u \in supported :
       /\ codec.chosen # Undefined => u = codec.chosen
       /\ codec' = [pc |-> "recording", chosen |-> codec.chosen, used |-> u]
  /\ CodecUnchanged

\* The "stop" listener computes actualMimeType for the RecordingResult.
CodecStop ==
  /\ codec.pc = "recording"
  /\ codec' = [pc |-> "stopped", chosen |-> codec.chosen, used |-> codec.used,
               reported |-> ActualMimeType(RecorderMimeType(codec.used),
                                           codec.chosen)]
  /\ CodecUnchanged

CodecNext == CodecPick \/ CodecStart \/ CodecStop

CodecSpec == CodecInit /\ [][CodecNext]_vars

\* ------------------------------------------------------------- properties

\* A stream whose device was obtained and on which stopCamera has not run.
Live(s) == acq[s] \in {"play", "done", "playfail"} /\ stopCount[s] = 0

\* A stream that was stored in currentStream at some point.
Stored(s) == acq[s] = "done"

\* C1: a recording for which cancel was requested before its "stop" event is
\* discarded when the event arrives: its result never becomes recordedVideo
\* and the preview is never set from its blob.
C1_CancelledResultDiscarded ==
  \A r \in Recs : cancelReq[r] => recordedVideo.blob # r /\ lastPreviewUrl # r

\* C2: recorder.stop() is invoked at most once per recording, and a
\* termination request (timer callback, Stop click, cancel) that finds the
\* recorder recording leaves it invoked exactly once.
C2_StopExactlyOnce ==
  [][\A r \in Recs :
       /\ stopCalls'[r] <= 1
       /\ (/\ recState[r] = "recording"
           /\ \/ TimerFire(r)
              \/ (StopClick /\ currentRecording = r)
              \/ (BackClick /\ currentRecording = r))
          => stopCalls'[r] = 1]_vars

\* A cancel issued the stop and the timer callback ran afterwards.
C2_Witness ==
  \E r \in Recs : cancelReq[r] /\ timer[r] = "fired" /\ stopCalls[r] = 1

\* C3: a stream that was stored in currentStream is passed to stopCamera
\* exactly once: never twice, and once it is no longer the current stream it
\* has been released.
C3_ReleasedExactlyOnce ==
  \A s \in Streams :
    /\ stopCount[s] <= 1
    /\ (Stored(s) /\ currentStream # s) => stopCount[s] = 1

\* C4: no Attempt passed to saveAttempt carries the blob of a recording for
\* which cancel was requested.
C4_CancelledNeverSaved ==
  \A a \in putLog : ~cancelReq[a.video]

\* C5: once the failure branch has run for a recording, the success branch
\* has not run for it and the stream it recorded has been released.
C5_ErrorReleasesCamera ==
  \A r \in Recs :
    catchRuns[r] > 0 => thenRuns[r] = 0 /\ stopCount[recStream[r]] > 0

\* C6: at most one acquired and unreleased camera stream exists.
C6_AtMostOneLiveStream ==
  Cardinality({s \in Streams : Live(s)}) <= 1

\* A manual stop or a cancel issued the stop signal of recorder r (the timer
\* callback had not run yet).
StoppedByUser(r) == stopCalls[r] = 1 /\ timer[r] = "armed"

\* The recorder of r raised an error while recording.
Errored(r) == recState[r] = "inactive" /\ stopCalls[r] = 0

\* The timer callback issued the stop signal of r once maxDurationMs had
\* elapsed, and the result reached the success branch of the handler.
AutoCompleted(r) ==
  /\ timer[r] = "fired" /\ stopCalls[r] = 1 /\ ~cancelReq[r]
  /\ elapsed[r] >= maxDurationMs
  /\ done[r] = "resolved" /\ thenRuns[r] = 1

\* C7 as stated: a started recording for which neither a manual stop nor a
\* cancel is requested is eventually stopped by the timer and completed.
C7_AutoStopCompletes ==
  \A r \in Recs :
    (recState[r] = "recording") ~> (AutoCompleted(r) \/ StoppedByUser(r))

\* C7, amended: the same, for a recording whose recorder raises no error; and
\* the timer callback never runs before maxDurationMs has elapsed.
C7_AutoStopCompletesUnlessError ==
  /\ \A r \in Recs :
       (recState[r] = "recording")
         ~> (AutoCompleted(r) \/ StoppedByUser(r) \/ Errored(r))
  /\ [](\A r \in Recs : timer[r] = "fired" => elapsed[r] >= maxDurationMs)

\* A recording completed by its auto-stop timer.
C7_Witness == \E r \in Recs : AutoCompleted(r)

\* C8: a timer callback or a controller.stop() that finds the recorder not
\* recording issues no stop signal and changes no state of the session.
C8_StopIsNoOpUnlessRecording ==
  [][\A r \in Recs :
       recState[r] # "recording" =>
         /\ TimerFire(r) =>
              UNCHANGED <<globals, dom, cams, recState, recStream, evq, done,
                          elapsed, stopCalls, history, saves>>
         /\ (StopClick /\ currentRecording = r) => UNCHANGED vars]_vars

\* A recorder was stopped and its timer callback has run, while its "stop"
\* event is still queued and the Stop button still refers to it.
C8_Witness ==
  \E r \in Recs :
    /\ timer[r] = "fired" /\ stopCalls[r] = 1 /\ ~cancelReq[r]
    /\ elapsed[r] >= maxDurationMs
    /\ currentRecording = r /\ ~stopRecordDisabled /\ recordUIShown
    /\ evq[r] = <<"stop">>

\* C9: "done" is resolved only once the recorder has left state "recording"
\* through a stop signal, and recordedVideo and the preview hold the result of
\* a recording only after its "done" was resolved.
C9_DoneOnlyAfterStop ==
  \A r \in Recs :
    /\ done[r] = "resolved" => recState[r] = "inactive" /\ stopCalls[r] >= 1
    /\ thenRuns[r] > 0 => done[r] = "resolved"
    /\ (recordedVideo.blob = r \/ lastPreviewUrl = r) => done[r] = "resolved"

\* The result of a stopped recording was delivered and is shown for saving.
C9_Witness ==
  \E r \in Recs :
    done[r] = "resolved" /\ recordedVideo.blob = r /\ saveSectionShown

\* C10: the two branches of the completion handler together run at most once
\* per recording, exactly once when "done" has settled, and "done" has
\* settled once every event of a stopped recorder is delivered.
C10_OneOutcome ==
  \A r \in Recs :
    /\ thenRuns[r] + catchRuns[r] <= 1
    /\ done[r] = "resolved" <=> thenRuns[r] = 1
    /\ done[r] = "rejected" <=> catchRuns[r] = 1
    /\ (recState[r] = "inactive" /\ evq[r] = <<>>)
         => thenRuns[r] + catchRuns[r] = 1

\* An "error" followed by a "stop" were both delivered for one recording.
C10_Witness ==
  \E r \in Recs :
    catchRuns[r] = 1 /\ recState[r] = "inactive" /\ evq[r] = <<>>

\* C11: openDB is invoked at most once, and every caller of getDb receives
\* the same handle.
C11_OpenedOnce ==
  /\ openCalls <= 1
  /\ \A c, d \in 1..MaxCalls :
       (calls[c].pc \in {"ready", "done"} /\ calls[d].pc \in {"ready", "done"})
         => calls[c].db = calls[d].db

\* C12: getAttempt(id) returns the record last saved under id, equal to it in
\* every field, and no record for an id that was never saved.
C12_GetReturnsLastPut ==
  \A i \in DbIds : GetAttempt(store, i) = lastPut[i]

\* A getAttempt returned a record that had replaced another one, and a
\* getAttempt of an id never saved returned no record.
C12_Witness ==
  \E c, d \in 1..MaxCalls :
    /\ calls[c].op = "get" /\ calls[c].pc = "done"
    /\ calls[c].ret = <<lastPut[calls[c].arg.id]>>
    /\ calls[c].ret # <<NoAttempt>>
    /\ calls[d].op = "save" /\ calls[d].pc = "done"
    /\ calls[d].arg.id = calls[c].arg.id
    /\ calls[d].arg # lastPut[calls[c].arg.id]

\* C13: listAttempts returns exactly one record per id ever saved, and a
\* saveAttempt leaves the records of all other ids as they were.
C13_KeyedById ==
  [][/\ LET list == ListAttempts(store')
        IN /\ Len(list) = Cardinality({i \in DbIds : lastPut'[i] # NoAttempt})
           /\ \A j, k \in 1..Len(list) : list[j].id = list[k].id => j = k
           /\ \A i \in DbIds : lastPut'[i] # NoAttempt =>
                \E j \in 1..Len(list) : list[j].id = i
     /\ \A c \in 1..MaxCalls :
          (DbExec(c) /\ calls[c].op = "save") =>
            \A x \in store : x.id # calls[c].arg.id => x \in store']_vars

\* One id was saved twice and a listAttempts returned a single record.
C13_Witness ==
  \E c \in 1..MaxCalls :
    /\ calls[c].op = "list" /\ calls[c].pc = "done"
    /\ Len(calls[c].ret) = Cardinality(store)
    /\ Cardinality(store) = 1
    /\ \E d, e \in 1..MaxCalls :
         /\ d # e
         /\ calls[d].op = "save" /\ calls[d].pc = "done"
         /\ calls[e].op = "save" /\ calls[e].pc = "done"
         /\ calls[d].arg.id = calls[e].arg.id

\* C14: when the store write of a Save fails, the success path does not run:
\* the page state (recordedVideo, currentTestType, the save UI) stays as it
\* was and the store holds no record with that attempt's id.
C14_FailedSaveLeavesState ==
  [][\A a \in pendingSaves :
       SaveReject(a) =>
         /\ UNCHANGED <<globals, dom, cams>>
         /\ \A x \in store' : x.id # a.id]_vars

\* A Save has failed: its attempt is no longer pending, is not stored, and
\* its recording is still the recorded result with the save section shown.
C14_Witness ==
  \E a \in putLog :
    /\ a \notin pendingSaves
    /\ \A x \in store : x.id # a.id
    /\ recordedVideo.blob = a.video
    /\ currentTestType = a.testType
    /\ saveSectionShown

\* C15: whenever the Start Record handler invokes recordVideo, currentStream
\* is a stream that was acquired and has not been released, and no other
\* recorder is in state "recording".
C15_CaptureOnlyFromCameraActive ==
  [][\A r \in Recs :
       (StartRecordClick /\ recState[r] = "none" /\ recState'[r] = "recording")
         => /\ currentStream # NoStream
            /\ Live(currentStream)
            /\ \A q \in Recs : recState[q] # "recording"]_vars

\* C16: when an acquisition fails (getUserMedia rejects, or play() rejects
\* after the device was obtained), the camera is unacquired afterwards: the
\* handle of the failed acquisition is not live and currentStream does not
\* refer to a live handle.
C16_FailedAcquireLeavesNoCamera ==
  [][\A s \in Streams :
       (GumReject(s) \/ PlayReject(s))
         => /\ ~Live(s)'
            /\ currentStream' # NoStream => ~Live(currentStream)']_vars

\* A text that is empty or consists of spaces only.
Blank(s) == \A i \in 1..Len(s) : s[i] = " "

\* An Attempt that is complete: unverified, with a score that has no
\* surrounding space and is not blank, a video, a media type and a duration
\* that is a non-negative integer.
WellFormed(a) ==
  /\ a.verified = FALSE
  /\ ~Blank(a.scoreText)
  /\ a.scoreText[1] # " " /\ a.scoreText[Len(a.scoreText)] # " "
  /\ a.video # NoResult.blob
  /\ a.mimeType # ""
  /\ a.durationMs \in Nat

\* C17: every Attempt the Save handler passes to saveAttempt is well-formed,
\* the media type of a recording result is never empty, and a Save click with
\* a blank score or without a recording puts nothing and changes no state.
C17_OnlyWellFormedAttempts ==
  [][/\ \A a \in putLog' \ putLog : WellFormed(a)
     /\ \A recMime \in PlatformTypes \cup {""} :
          \A ch \in PlatformTypes \cup {Undefined} :
            ActualMimeType(recMime, ch) # ""
     /\ (SaveClick /\ (recordedVideo = NoResult \/ Blank(scoreInput)))
          => UNCHANGED vars]_vars

\* An Attempt of the recorded result was passed to saveAttempt, and the score
\* field now holds spaces only while the Save button is still there.
C17_Witness ==
  /\ \E a \in putLog : a.video = recordedVideo.blob /\ WellFormed(a)
  /\ recordedVideo # NoResult
  /\ scoreInput # <<>> /\ Blank(scoreInput)
  /\ recordUIShown /\ saveSectionShown

\* C18: pickBestMimeType returns the first supported entry of the ordered
\* candidate list, or undefined when none is supported, and the mimeType
\* reported in the RecordingResult is the type the recorder used.
C18_CodecSelection ==
  /\ codec.pc # "idle" =>
       /\ codec.chosen = Undefined <=>
            \A i \in 1..Len(Candidates) : Candidates[i] \notin supported
       /\ codec.chosen # Undefined =>
            \E i \in 1..Len(Candidates) :
              /\ codec.chosen = Candidates[i]
              /\ Candidates[i] \in supported
              /\ \A j \in 1..(i - 1) : Candidates[j] \notin supported
  /\ codec.pc = "stopped" => codec.reported = codec.used

\* C19: when the "stop" event of a recording the user left with Back is
\* delivered after a camera was acquired for a new session, its completion
\* handler leaves the new session alone: the new camera is not released,
\* recordedVideo and the save section are not set, no control is disabled.
C19_StaleCompletionIsolated ==
  [][\A r \in Recs :
       (/\ StopEvent(r)
        /\ cancelReq[r]
        /\ recordUIShown
        /\ currentStream # NoStream
        /\ currentStream # recStream[r]
        /\ Live(currentStream))
         => UNCHANGED <<stopCount, currentStream, recordedVideo,
                        saveSectionShown, startCameraDisabled,
                        startRecordDisabled, stopRecordDisabled>>]_vars

\* C20: at most one Attempt carrying a given recording's blob is ever passed
\* to saveAttempt.
C20_RecordingSavedOnce ==
  \A a, b \in putLog : a.video = b.video => a = b

====
